---- MODULE Spec2Model ----
(***************************************************************************)
(* A model of the Komga source adapter (src/src/Komga/Komga.ts, the        *)
(* current revision: lines 518-1172 of the file).                          *)
(*                                                                         *)
(* Strings are TLA+ strings; the persistent key/value state is a partial   *)
(* function (a key is in its domain iff a value is stored, and a retrieve  *)
(* of a key outside the domain yields null).  Every `await` of the code is *)
(* a point where another step may interleave, so an operation is a small   *)
(* process with a position (its pc) and one action per stretch of code     *)
(* between two awaits.                                                     *)
(***************************************************************************)
EXTENDS Integers, Sequences, FiniteSets, TLC

VARIABLES
    state,          \* the persistent key/value store behind stateManager
    storeQueue,     \* stateManager.store calls issued and not yet performed
    sPc,            \* submitSourceMenuItemForm: position
    sId,            \* submitSourceMenuItemForm: number of the current call
    sForm,          \* submitSourceMenuItemForm: argument `form`
    sAuthorization, \* submitSourceMenuItemForm: local `authorization`
    sKomgaAPI,      \* submitSourceMenuItemForm: local `komgaAPI`
    sRequest,       \* the probe request in flight (<<>> when none)
    sStatus,        \* submitSourceMenuItemForm: local `responseStatus`
    sError,         \* message of the error the call threw ("" when none)
    sSent,          \* requests the current call handed to the network
    sBefore,        \* history: `state` when the current call started
    cPc,            \* catalog operation: position
    cOp,            \* catalog operation: the operation called
    cArgs,          \* catalog operation: its arguments
    cKomgaAPI,      \* catalog operation: local `komgaAPI`
    cPage,          \* catalog operation: local `page`
    cRequest,       \* catalog operation: its request (<<>> when none)
    cLocals,        \* catalog operation: its locals holding parsed responses
    cResult,        \* catalog operation: the value returned (<<>> when none)
    cError,         \* catalog operation: message of the error thrown
    cSent,          \* catalog operation: requests handed to the network
    cPrev,          \* history: page, size and cursor of the previous paged call
    uPc,            \* filterUpdatedManga: position
    uArgs,          \* filterUpdatedManga: arguments `time` and `ids`
    uKomgaAPI,      \* filterUpdatedManga: local `komgaAPI`
    uPage,          \* filterUpdatedManga: local `page`
    uFoundIds,      \* filterUpdatedManga: local `foundIds`
    uLoadMore,      \* filterUpdatedManga: local `loadMore`
    uRequest,       \* filterUpdatedManga: its request (<<>> when none)
    uError,         \* filterUpdatedManga: message of the error thrown
    uSent,          \* filterUpdatedManga: requests handed to the network
    uCallbacks,     \* the batches given to mangaUpdatesFoundCallback, in order
    uLast,          \* history: the content of the page processed last
    hPc,            \* getHomePageSections: position
    hKomgaAPI,      \* getHomePageSections: local `komgaAPI` (<<>> for null)
    hSections,      \* getHomePageSections: local `sections`, by section id
    hFetch,         \* the promise of each section's fetch, by section id
    hRequests,      \* the request of each section's fetch, by section id
    hEmitted,       \* the sections given to sectionCallback, in order
    hError,         \* getHomePageSections: message of the error thrown
    hSent           \* getHomePageSections: requests handed to the network

settingsLocals == <<sPc, sId, sForm, sAuthorization, sKomgaAPI, sRequest, sStatus,
                    sError, sSent, sBefore>>
settingsVars == <<state, storeQueue, settingsLocals>>
catalogVars == <<cPc, cOp, cArgs, cKomgaAPI, cPage, cRequest, cLocals, cResult,
                 cError, cSent, cPrev>>
updatesVars == <<uPc, uArgs, uKomgaAPI, uPage, uFoundIds, uLoadMore, uRequest, uError,
                 uSent, uCallbacks, uLast>>
homeVars == <<hPc, hKomgaAPI, hSections, hFetch, hRequests, hEmitted, hError, hSent>>
vars == <<settingsVars, catalogVars, updatesVars, homeVars>>

---------------------------------------------------------------------------
(* Bounds of the model *)

\* settings submissions in one behaviour
MaxSubmits == 2

\* the largest page cursor the host passes to a paged operation
MaxCursor == 2

\* pages of updated series the server answers in one update poll
MaxPages == 2

\* series in one page of updated series
MaxItems == 2

---------------------------------------------------------------------------
(* Strings, bytes and Base64 (Buffer.from(s, 'binary').toString('base64')) *)

\* the printable ASCII characters of codes 32 (space) to 95, and 97 to 126
\* (code 96, the backquote, cannot be written in a TLA+ string and is left out)
PrintableLow == " !\"#$%&'()*+,-./0123456789:;<=>?@ABCDEFGHIJKLMNOPQRSTUVWXYZ[\\]^_"

PrintableHigh == "abcdefghijklmnopqrstuvwxyz{|}~"

Base64Alphabet == "ABCDEFGHIJKLMNOPQRSTUVWXYZabcdefghijklmnopqrstuvwxyz0123456789+/"

CharAt(s, i) == SubSeq(s, i, i)

\* the UTF-16 code unit of a one-character string
CharCode(c) ==
    IF \E i \in 1..Len(PrintableLow) : CharAt(PrintableLow, i) = c
    THEN 31 + CHOOSE i \in 1..Len(PrintableLow) : CharAt(PrintableLow, i) = c
    ELSE 96 + CHOOSE i \in 1..Len(PrintableHigh) : CharAt(PrintableHigh, i) = c

\* Buffer.from(s, 'binary'): one byte per character, its code modulo 256
BinaryBytes(s) == [i \in 1..Len(s) |-> CharCode(CharAt(s, i)) % 256]

B64Char(n) == CharAt(Base64Alphabet, n + 1)

RECURSIVE Base64(_)
Base64(bytes) ==
    IF Len(bytes) = 0 THEN ""
    ELSE IF Len(bytes) = 1 THEN
        B64Char(bytes[1] \div 4) \o B64Char((bytes[1] % 4) * 16) \o "=="
    ELSE IF Len(bytes) = 2 THEN
        B64Char(bytes[1] \div 4)
        \o B64Char((bytes[1] % 4) * 16 + bytes[2] \div 16)
        \o B64Char((bytes[2] % 16) * 4) \o "="
    ELSE
        B64Char(bytes[1] \div 4)
        \o B64Char((bytes[1] % 4) * 16 + bytes[2] \div 16)
        \o B64Char((bytes[2] % 16) * 4 + bytes[3] \div 64)
        \o B64Char(bytes[3] % 64)
        \o Base64(SubSeq(bytes, 4, Len(bytes)))

\* String.prototype.slice(-1): the last character, "" for the empty string
SliceLast(s) == IF Len(s) = 0 THEN "" ELSE CharAt(s, Len(s))

---------------------------------------------------------------------------
(* Configuration resolver *)

createAuthorizationString(username, password) ==
    "Basic " \o Base64(BinaryBytes(username \o ":" \o password))

\* the join without the test of the last character
createKomgaAPIAlwaysSlash(serverAddress) == serverAddress \o "/api/v1"

createKomgaAPI(serverAddress) ==
    serverAddress \o (IF SliceLast(serverAddress) = "/" THEN "api/v1" ELSE "/api/v1")

---------------------------------------------------------------------------
(* Persistent state: createSourceStateManager({}) *)

RawKeys == {"serverAddress", "serverUsername", "serverPassword"}
DerivedKeys == {"authorization", "komgaAPI"}

\* stateManager.store(key, value), called by call number `sid` of the form
\* handler: the call is issued now and performed later
StoreCall(key, value, sid) == [key |-> key, value |-> value, sid |-> sid]

\* The store calls of the code are issued without awaiting one another, so
\* calls on different keys are performed in any order; calls on the same key
\* are performed in the order they were issued.
CanPerform(i) ==
    /\ i \in DOMAIN storeQueue
    /\ \A j \in 1..(i - 1) : storeQueue[j].key # storeQueue[i].key

Without(queue, i) == SubSeq(queue, 1, i - 1) \o SubSeq(queue, i + 1, Len(queue))

Written(st, key, value) ==
    [k \in DOMAIN st \cup {key} |-> IF k = key THEN value ELSE st[k]]

PerformStore(i) ==
    /\ CanPerform(i)
    /\ state' = Written(state, storeQueue[i].key, storeQueue[i].value)
    /\ storeQueue' = Without(storeQueue, i)
    /\ UNCHANGED <<settingsLocals, catalogVars, updatesVars, homeVars>>

---------------------------------------------------------------------------
(* Request interceptor *)

Thrown(message) == [threw |-> TRUE, message |-> message]
Returned(value) == [threw |-> FALSE, value |-> value]

\* the revision of lines 70-72: the retrieved value is returned unchecked
InterceptorGetAuthorizationStringUnchecked(st) ==
    IF "authorization" \notin DOMAIN st THEN Returned("null")
    ELSE Returned(st["authorization"])

\* KomgaRequestInterceptor.getAuthorizationString, reading the store `st`
InterceptorGetAuthorizationString(st) ==
    IF "authorization" \notin DOMAIN st
    THEN Thrown("Unset credentials in source settings")
    ELSE Returned(st["authorization"])

\* an interceptor that injects the stored authorization into every request
interceptRequestAlwaysInjects(request, st) ==
    LET headers == IF "headers" \in DOMAIN request THEN request.headers ELSE <<>>
        stored == InterceptorGetAuthorizationString(st)
    IN  IF stored.threw
        THEN stored
        ELSE Returned([headers |-> [authorization |-> stored.value] @@ headers]
                      @@ request)

\* KomgaRequestInterceptor.interceptRequest, reading the store `st`
interceptRequest(request, st) ==
    LET headers == IF "headers" \in DOMAIN request THEN request.headers ELSE <<>>
        stored == InterceptorGetAuthorizationString(st)
    IN  IF "authorization" \notin DOMAIN headers
        THEN IF stored.threw
             THEN stored
             ELSE Returned([headers |-> [authorization |-> stored.value] @@ headers]
                           @@ request)
        ELSE Returned([headers |-> headers] @@ request)

---------------------------------------------------------------------------
(* Settings form handler: submitSourceMenuItemForm *)

\* the values the settings form can carry
Forms ==
    { [serverAddress |-> "http://h/", serverUsername |-> "u", serverPassword |-> "p"],
      [serverAddress |-> "http://g", serverUsername |-> "ab", serverPassword |-> "q"] }

\* Object.keys(form), in the order of the form's fields
FormKeys == <<"serverAddress", "serverUsername", "serverPassword">>

\* `var responseStatus = undefined` (0 stands for undefined: no server status)
NoStatus == 0

\* what the server may answer to the probe, and how the transport may fail
Statuses == {200, 401, 500}
TransportErrors == {"AsyncOperationTimedOutError", "NetworkError"}

ProbeRequest(komgaAPI, authorization) ==
    [url |-> komgaAPI \o "/series/", param |-> "?size=1", method |-> "GET",
     incognito |-> TRUE, headers |-> [authorization |-> authorization]]

\* the revision of lines 468-480: the derived values are stored before the probe
EarlyStoresWithDerived(form, sid) ==
    [i \in 1..Len(FormKeys) |-> StoreCall(FormKeys[i], form[FormKeys[i]], sid)]
    \o << StoreCall("authorization",
                    createAuthorizationString(form["serverUsername"],
                                              form["serverPassword"]), sid),
          StoreCall("komgaAPI", createKomgaAPI(form["serverAddress"]), sid) >>

\* lines 1119-1123: one store per key of the form, before anything else
EarlyStores(form, sid) == [i \in 1..Len(FormKeys) |-> StoreCall(FormKeys[i], form[FormKeys[i]], sid)]

\* lines 1163-1168: the stores after a probe that returned 200
FinalStores(form, authorization, komgaAPI, sid) ==
    << StoreCall("serverAddress", form["serverAddress"], sid),
       StoreCall("serverUsername", form["serverUsername"], sid),
       StoreCall("serverPassword", form["serverPassword"], sid),
       StoreCall("authorization", authorization, sid),
       StoreCall("komgaAPI", komgaAPI, sid) >>

\* from the call to the first await: the early stores, the derived values and
\* the probe request handed to the request manager (which intercepts it)
SubmitStart(form) ==
    /\ sPc \in {"idle", "done", "failed"}
    /\ sId < MaxSubmits
    /\ LET authorization == createAuthorizationString(form["serverUsername"],
                                                      form["serverPassword"])
           komgaAPI == createKomgaAPI(form["serverAddress"])
           intercepted == interceptRequest(ProbeRequest(komgaAPI, authorization), state)
       IN  /\ sId' = sId + 1
           /\ sForm' = form
           /\ sBefore' = state
           /\ storeQueue' = storeQueue \o EarlyStores(form, sId + 1)
           /\ sAuthorization' = authorization
           /\ sKomgaAPI' = komgaAPI
           /\ sStatus' = NoStatus
           /\ IF intercepted.threw
              THEN /\ sPc' = "failed"
                   /\ sError' = "Could not connect to server: " \o intercepted.message
                   /\ sRequest' = <<>>
                   /\ sSent' = 0
              ELSE /\ sPc' = "probing"
                   /\ sError' = ""
                   /\ sRequest' = intercepted.value
                   /\ sSent' = 1
    /\ UNCHANGED <<state, catalogVars, updatesVars, homeVars>>

\* the errors of the switch of lines 1148-1159 ("" for case 200: no error)
StatusErrorDefaultOnly(status) ==
    IF status = 200 THEN ""
    ELSE "Connection failed with status code " \o ToString(status)

StatusError(status) ==
    IF status = 200 THEN ""
    ELSE IF status = 401 THEN "401 Unauthorized: Invalid credentials"
    ELSE "Connection failed with status code " \o ToString(status)

\* the probe is answered with a status: the switch of lines 1148-1159 and, for
\* 200, the stores of lines 1163-1168
ProbeResponse(status) ==
    /\ sPc = "probing"
    /\ sStatus' = status
    /\ sRequest' = <<>>
    /\ IF status = 200
       THEN /\ sPc' = "joining"
            /\ storeQueue' = storeQueue \o FinalStores(sForm, sAuthorization, sKomgaAPI, sId)
       ELSE /\ sPc' = "failed"
            /\ UNCHANGED storeQueue
    /\ sError' = StatusError(status)
    /\ UNCHANGED <<state, sId, sForm, sAuthorization, sKomgaAPI, sSent, sBefore>>
    /\ UNCHANGED <<catalogVars, updatesVars, homeVars>>

\* the probe is rejected by the transport: the catch of lines 1143-1146
ProbeTransportFailure(message) ==
    /\ sPc = "probing"
    /\ sRequest' = <<>>
    /\ sPc' = "failed"
    /\ sError' = "Could not connect to server: " \o message
    /\ UNCHANGED <<state, storeQueue, sId, sForm, sAuthorization, sKomgaAPI, sStatus,
                   sSent, sBefore>>
    /\ UNCHANGED <<catalogVars, updatesVars, homeVars>>

\* the call returning without the await of line 1170
SubmitJoinWithoutAwait ==
    /\ sPc = "joining"
    /\ sPc' = "done"
    /\ UNCHANGED <<state, storeQueue, sId, sForm, sAuthorization, sKomgaAPI, sRequest,
                   sStatus, sError, sSent, sBefore>>
    /\ UNCHANGED <<catalogVars, updatesVars, homeVars>>

\* await Promise.all(promises): every store of this call has been performed
SubmitJoin ==
    /\ sPc = "joining"
    /\ \A i \in DOMAIN storeQueue : storeQueue[i].sid # sId
    /\ sPc' = "done"
    /\ UNCHANGED <<state, storeQueue, sId, sForm, sAuthorization, sKomgaAPI, sRequest,
                   sStatus, sError, sSent, sBefore>>
    /\ UNCHANGED <<catalogVars, updatesVars, homeVars>>

---------------------------------------------------------------------------
(* Catalog translator: what every operation starts with *)

\* the revision of lines 74-76: the retrieved value is returned unchecked
getKomgaAPIUnchecked(st) ==
    IF "komgaAPI" \notin DOMAIN st THEN Returned("null")
    ELSE Returned(st["komgaAPI"])

\* Komga.getKomgaAPI, reading the store `st`
getKomgaAPI(st) ==
    IF "komgaAPI" \notin DOMAIN st
    THEN Thrown("Unset server URL in source settings")
    ELSE Returned(st["komgaAPI"])

\* a catalog operation can be called when the previous call has returned
CatalogIdle == cPc \in {"idle", "done", "failed"}

\* `await this.getKomgaAPI()` threw: the operation fails before any request
CatalogUnset(op, args, message) ==
    /\ cOp' = op
    /\ cArgs' = args
    /\ cPc' = "failed"
    /\ cError' = message
    /\ cKomgaAPI' = ""
    /\ cPage' = 0
    /\ cRequest' = <<>>
    /\ cLocals' = <<>>
    /\ cResult' = <<>>
    /\ cSent' = 0

\* the operation built `request` and called requestManager.schedule
CatalogScheduled(op, args, komgaAPI, page, request) ==
    /\ cOp' = op
    /\ cArgs' = args
    /\ cPc' = "scheduled"
    /\ cError' = ""
    /\ cKomgaAPI' = komgaAPI
    /\ cPage' = page
    /\ cRequest' = request
    /\ cLocals' = <<>>
    /\ cResult' = <<>>
    /\ cSent' = 0

\* the request manager runs the interceptor, then dispatches the request
CatalogIntercept ==
    /\ cPc = "scheduled"
    /\ LET intercepted == interceptRequest(cRequest, state)
       IN  IF intercepted.threw
           THEN /\ cPc' = "failed"
                /\ cError' = intercepted.message
                /\ cRequest' = <<>>
                /\ cSent' = cSent
           ELSE /\ cPc' = "inflight"
                /\ cError' = ""
                /\ cRequest' = intercepted.value
                /\ cSent' = cSent + 1
    /\ UNCHANGED <<cOp, cArgs, cKomgaAPI, cPage, cLocals, cResult, cPrev>>
    /\ UNCHANGED <<settingsVars, updatesVars, homeVars>>

\* a request manager that schedules a rejected request again
CatalogTransportFailureRetried(message) ==
    /\ cPc = "inflight"
    /\ cPc' = "scheduled"
    /\ UNCHANGED <<cOp, cArgs, cKomgaAPI, cPage, cRequest, cLocals, cResult, cError,
                   cSent, cPrev>>
    /\ UNCHANGED <<settingsVars, updatesVars, homeVars>>

\* the transport rejects the request: the error propagates to the caller
CatalogTransportFailure(message) ==
    /\ cPc = "inflight"
    /\ cPc' = "failed"
    /\ cError' = message
    /\ UNCHANGED <<cOp, cArgs, cKomgaAPI, cPage, cRequest, cLocals, cResult, cSent,
                   cPrev>>
    /\ UNCHANGED <<settingsVars, updatesVars, homeVars>>

---------------------------------------------------------------------------
(* Catalog translator: getMangaDetails *)

MangaIds == {"m1"}

\* the series the server may describe
SeriesStatuses == {"ENDED", "ONGOING"}

\* the strings the server may send as a status, known to the code or not
StatusStrings == {"ENDED", "ONGOING", "ABANDONED", "HIATUS", "", "ended", "UNKNOWN"}

\* an abandoned series taken as a completed one
parseMangaStatusAbandonedCompleted(komgaStatus) ==
    CASE komgaStatus = "ENDED" -> "COMPLETED"
      [] komgaStatus = "ABANDONED" -> "COMPLETED"
      [] OTHER -> "ONGOING"

parseMangaStatus(komgaStatus) ==
    CASE komgaStatus = "ENDED" -> "COMPLETED"
      [] komgaStatus = "ONGOING" -> "ONGOING"
      [] komgaStatus = "ABANDONED" -> "ONGOING"
      [] komgaStatus = "HIATUS" -> "ONGOING"
      [] OTHER -> "ONGOING"

\* lines 657-664: read the API base, build the request, schedule it
DetailsStart(mangaId) ==
    /\ CatalogIdle
    /\ LET komgaAPI == getKomgaAPI(state)
       IN  IF komgaAPI.threw
           THEN CatalogUnset("getMangaDetails", [mangaId |-> mangaId],
                             komgaAPI.message)
           ELSE CatalogScheduled("getMangaDetails", [mangaId |-> mangaId],
                    komgaAPI.value, 0,
                    [url |-> komgaAPI.value \o "/series/" \o mangaId \o "/",
                     method |-> "GET"])
    /\ UNCHANGED cPrev
    /\ UNCHANGED <<settingsVars, updatesVars, homeVars>>

\* lines 665-702: the response arrives and the details are returned
DetailsResponse(status) ==
    /\ cPc = "inflight"
    /\ cOp = "getMangaDetails"
    /\ cPc' = "done"
    /\ cLocals' = [result |-> [metadata |-> [status |-> status]]]
    /\ cResult' = [id |-> cArgs.mangaId,
                   image |-> cKomgaAPI \o "/series/" \o cArgs.mangaId \o "/thumbnail",
                   rating |-> 5,
                   status |-> parseMangaStatus(status)]
    /\ UNCHANGED <<cOp, cArgs, cKomgaAPI, cPage, cRequest, cError, cSent, cPrev>>
    /\ UNCHANGED <<settingsVars, updatesVars, homeVars>>

---------------------------------------------------------------------------
(* Catalog translator: searchRequest and getViewMoreItems *)

\* Number of items requested for paged requests
PAGE_SIZE == 40

PagedOps == {"searchRequest", "getViewMoreItems"}

\* the characters encodeURIComponent leaves as they are
Unreserved == "ABCDEFGHIJKLMNOPQRSTUVWXYZabcdefghijklmnopqrstuvwxyz0123456789-_.!~*'()"

HexDigit(n) == CharAt("0123456789ABCDEF", n + 1)

\* encodeURIComponent on a string of ASCII characters: every character that
\* is not unreserved becomes % and the two hexadecimal digits of its code
RECURSIVE encodeURIComponent(_)
encodeURIComponent(str) ==
    IF Len(str) = 0 THEN ""
    ELSE LET c == CharAt(str, 1)
             code == CharCode(c)
         IN  (IF \E i \in 1..Len(Unreserved) : CharAt(Unreserved, i) = c
              THEN c
              ELSE "%" \o HexDigit(code \div 16) \o HexDigit(code % 16))
             \o encodeURIComponent(SubSeq(str, 2, Len(str)))

\* Array.prototype.join
RECURSIVE Join(_, _)
Join(list, separator) ==
    IF Len(list) = 0 THEN ""
    ELSE IF Len(list) = 1 THEN list[1]
    ELSE list[1] \o separator \o Join(Tail(list), separator)

\* the arguments the host may pass: a search with or without a title, a
\* home section, and as `metadata` nothing or a page cursor
SearchQueries == {<<>>, [title |-> "a b"]}
SectionIds == {"new", "updated"}
Metadatas == {<<>>} \cup {[page |-> n] : n \in 0..MaxCursor}

\* `metadata?.page ?? 0`
PageOf(metadata) == IF "page" \in DOMAIN metadata THEN metadata.page ELSE 0

\* the series of a page of the server's answer (result.content)
Serie(i) == [id |-> "s" \o ToString(i), metadata |-> [title |-> "t" \o ToString(i)]]
PageFills == {0, 1, PAGE_SIZE}
PageContent(n) == [i \in 1..n |-> Serie(i)]

\* createMangaTile of lines 827-832 and 928-933
Tile(komgaAPI, serie) ==
    [id |-> serie.id,
     title |-> [text |-> serie.metadata.title],
     image |-> komgaAPI \o "/series/" \o serie.id \o "/thumbnail",
     subtitleText |-> [text |-> "id: " \o serie.id]]

Tiles(komgaAPI, content) == [i \in 1..Len(content) |-> Tile(komgaAPI, content[i])]

\* a cursor only after a full page
PagedResultsFullPageOnly(tiles, page) ==
    IF Len(tiles) < PAGE_SIZE THEN [results |-> tiles]
    ELSE [results |-> tiles, metadata |-> [page |-> page + 1]]

\* lines 836-841 and 937-942: no metadata (undefined) after an empty page
PagedResults(tiles, page) ==
    IF Len(tiles) = 0 THEN [results |-> tiles]
    ELSE [results |-> tiles, metadata |-> [page |-> page + 1]]

\* history: what the paged call that has just returned did
PreviousPaged ==
    IF cPc = "done" /\ cOp \in PagedOps
    THEN [op |-> cOp, args |-> cArgs, page |-> cPage, size |-> Len(cResult.results),
          result |-> [k \in DOMAIN cResult \ {"results"} |-> cResult[k]]]
    ELSE cPrev

\* lines 796-821
SearchStart(searchQuery, metadata) ==
    /\ CatalogIdle
    /\ LET komgaAPI == getKomgaAPI(state)
           args == [searchQuery |-> searchQuery, metadata |-> metadata]
           page == PageOf(metadata)
           paramsList == <<"page=" \o ToString(page), "size=" \o ToString(PAGE_SIZE)>>
                         \o (IF "title" \in DOMAIN searchQuery
                             THEN <<"search=" \o encodeURIComponent(searchQuery.title)>>
                             ELSE <<>>)
           paramsString == IF Len(paramsList) > 0 THEN "?" \o Join(paramsList, "&")
                           ELSE ""
       IN  IF komgaAPI.threw
           THEN CatalogUnset("searchRequest", args, komgaAPI.message)
           ELSE CatalogScheduled("searchRequest", args, komgaAPI.value, page,
                    [url |-> komgaAPI.value \o "/series", method |-> "GET",
                     param |-> paramsString])
    /\ cPrev' = PreviousPaged
    /\ UNCHANGED <<settingsVars, updatesVars, homeVars>>

\* lines 914-923
ViewMoreStart(homepageSectionId, metadata) ==
    /\ CatalogIdle
    /\ LET komgaAPI == getKomgaAPI(state)
           args == [homepageSectionId |-> homepageSectionId, metadata |-> metadata]
           page == PageOf(metadata)
       IN  IF komgaAPI.threw
           THEN CatalogUnset("getViewMoreItems", args, komgaAPI.message)
           ELSE CatalogScheduled("getViewMoreItems", args, komgaAPI.value, page,
                    [url |-> komgaAPI.value \o "/series/" \o homepageSectionId,
                     param |-> "?page=" \o ToString(page) \o "&size="
                               \o ToString(PAGE_SIZE),
                     method |-> "GET"])
    /\ cPrev' = PreviousPaged
    /\ UNCHANGED <<settingsVars, updatesVars, homeVars>>

\* a paged operation that keeps its cursor in the persistent state
PagedResponseCachingCursor(content) ==
    /\ cPc = "inflight"
    /\ cOp \in PagedOps
    /\ cPc' = "done"
    /\ cLocals' = [result |-> [content |-> content]]
    /\ cResult' = PagedResults(Tiles(cKomgaAPI, content), cPage)
    /\ state' = Written(state, "page", ToString(cPage + 1))
    /\ UNCHANGED <<cOp, cArgs, cKomgaAPI, cPage, cRequest, cError, cSent, cPrev>>
    /\ UNCHANGED <<storeQueue, settingsLocals, updatesVars, homeVars>>

\* lines 823-841 and 924-942: the page arrives and is returned as tiles
PagedResponse(content) ==
    /\ cPc = "inflight"
    /\ cOp \in PagedOps
    /\ cPc' = "done"
    /\ cLocals' = [result |-> [content |-> content]]
    /\ cResult' = PagedResults(Tiles(cKomgaAPI, content), cPage)
    /\ UNCHANGED <<cOp, cArgs, cKomgaAPI, cPage, cRequest, cError, cSent, cPrev>>
    /\ UNCHANGED <<settingsVars, updatesVars, homeVars>>

---------------------------------------------------------------------------
(* Catalog translator: filterUpdatedManga *)

\* JavaScript values whose type matters: a string and an object are never
\* equal, whatever they hold
JsString(str) == [type |-> "string", value |-> str]
JsObject(fields) == [type |-> "object"] @@ fields

\* the comparison Array.prototype.includes makes (SameValueZero)
SameValueZero(a, b) == a.type = b.type /\ a = b

includes(array, element) ==
    \E i \in DOMAIN array : SameValueZero(array[i], element)

\* the arguments of an update poll: the cutoff `time` and the candidate `ids`
UpdateTimes == {2}
UpdateIds == {<<>>, <<JsString("s1")>>}

\* the series of the server's "updated" list: an id and a lastModified time
\* (new Date(lastModified) taken as the number it compares as)
UpdatedSeries ==
    {JsObject([id |-> id, metadata |-> [lastModified |-> t]]) :
        id \in {"s1", "s2"}, t \in 1..3}

SeqsUpTo(set, n) == UNION {[1..k -> set] : k \in 0..n}

UpdatedContents == SeqsUpTo(UpdatedSeries, MaxItems)

\* the scan without the else branch: an older series does not stop the scan
RECURSIVE ScanPageNoStop(_, _, _, _)
ScanPageNoStop(content, time, ids, foundIds) ==
    IF Len(content) = 0 THEN [foundIds |-> foundIds, loadMore |-> TRUE]
    ELSE LET serie == Head(content)
             serieUpdated == serie.metadata.lastModified
         IN  ScanPageNoStop(Tail(content), time, ids,
                            IF serieUpdated >= time /\ includes(ids, serie)
                            THEN Append(foundIds, serie) ELSE foundIds)

\* the scan with an else branch that breaks out without clearing loadMore
RECURSIVE ScanPageBreakOnly(_, _, _, _)
ScanPageBreakOnly(content, time, ids, foundIds) ==
    IF Len(content) = 0 THEN [foundIds |-> foundIds, loadMore |-> TRUE]
    ELSE LET serie == Head(content)
             serieUpdated == serie.metadata.lastModified
         IN  IF serieUpdated >= time
             THEN ScanPageBreakOnly(Tail(content), time, ids,
                                    IF includes(ids, serie)
                                    THEN Append(foundIds, serie) ELSE foundIds)
             ELSE [foundIds |-> foundIds, loadMore |-> TRUE]

\* lines 966-978: the for loop over result.content; loadMore is FALSE when
\* the loop met a series older than `time` (and broke out)
RECURSIVE ScanPage(_, _, _, _)
ScanPage(content, time, ids, foundIds) ==
    IF Len(content) = 0 THEN [foundIds |-> foundIds, loadMore |-> TRUE]
    ELSE LET serie == Head(content)
             serieUpdated == serie.metadata.lastModified
         IN  IF serieUpdated >= time
             THEN ScanPage(Tail(content), time, ids,
                           IF includes(ids, serie)
                           THEN Append(foundIds, serie) ELSE foundIds)
             ELSE [foundIds |-> foundIds, loadMore |-> FALSE]

\* a request that asks for the first page whatever the page index
UpdatedRequestFirstPage(komgaAPI, page) ==
    [url |-> komgaAPI \o "/series/updated/",
     param |-> "?page=0&size=" \o ToString(PAGE_SIZE),
     method |-> "GET"]

\* lines 957-961
UpdatedRequest(komgaAPI, page) ==
    [url |-> komgaAPI \o "/series/updated/",
     param |-> "?page=" \o ToString(page) \o "&size=" \o ToString(PAGE_SIZE),
     method |-> "GET"]

\* lines 947-963: read the API base, then the first turn of the loop up to
\* its await
UpdatesStart(time, ids) ==
    /\ uPc \in {"idle", "done", "failed"}
    /\ uArgs' = [time |-> time, ids |-> ids]
    /\ uPage' = 0
    /\ uFoundIds' = <<>>
    /\ uLoadMore' = TRUE
    /\ uSent' = 0
    /\ uCallbacks' = <<>>
    /\ uLast' = <<>>
    /\ LET komgaAPI == getKomgaAPI(state)
       IN  IF komgaAPI.threw
           THEN /\ uPc' = "failed"
                /\ uError' = komgaAPI.message
                /\ uKomgaAPI' = ""
                /\ uRequest' = <<>>
           ELSE /\ uPc' = "scheduled"
                /\ uError' = ""
                /\ uKomgaAPI' = komgaAPI.value
                /\ uRequest' = UpdatedRequest(komgaAPI.value, 0)
    /\ UNCHANGED <<settingsVars, catalogVars, homeVars>>

\* the request manager runs the interceptor, then dispatches the request
UpdatesIntercept ==
    /\ uPc = "scheduled"
    /\ LET intercepted == interceptRequest(uRequest, state)
       IN  IF intercepted.threw
           THEN /\ uPc' = "failed"
                /\ uError' = intercepted.message
                /\ uRequest' = <<>>
                /\ uSent' = uSent
           ELSE /\ uPc' = "inflight"
                /\ uError' = ""
                /\ uRequest' = intercepted.value
                /\ uSent' = uSent + 1
    /\ UNCHANGED <<uArgs, uKomgaAPI, uPage, uFoundIds, uLoadMore, uCallbacks, uLast>>
    /\ UNCHANGED <<settingsVars, catalogVars, homeVars>>

\* lines 964-992: a page arrives; it is scanned, the page index is advanced,
\* the callback is called if anything has been found, and either the loop
\* ends or its next turn builds and schedules the next request
UpdatesResponse(content) ==
    /\ uPc = "inflight"
    /\ uPage < MaxPages
    /\ LET scanned == ScanPage(content, uArgs.time, uArgs.ids, uFoundIds)
           loadMore == IF Len(content) = 0 THEN FALSE ELSE scanned.loadMore
       IN  /\ uFoundIds' = scanned.foundIds
           /\ uLoadMore' = loadMore
           /\ uPage' = uPage + 1
           /\ uCallbacks' = IF Len(scanned.foundIds) > 0
                            THEN Append(uCallbacks, [ids |-> scanned.foundIds])
                            ELSE uCallbacks
           /\ IF loadMore
              THEN /\ uPc' = "scheduled"
                   /\ uRequest' = UpdatedRequest(uKomgaAPI, uPage + 1)
              ELSE /\ uPc' = "done"
                   /\ uRequest' = <<>>
    /\ uLast' = content
    /\ UNCHANGED <<uArgs, uKomgaAPI, uError, uSent>>
    /\ UNCHANGED <<settingsVars, catalogVars, homeVars>>

\* the transport rejects the request: the error propagates to the caller
UpdatesTransportFailure(message) ==
    /\ uPc = "inflight"
    /\ uPc' = "failed"
    /\ uError' = message
    /\ uRequest' = <<>>
    /\ UNCHANGED <<uArgs, uKomgaAPI, uPage, uFoundIds, uLoadMore, uSent, uCallbacks,
                   uLast>>
    /\ UNCHANGED <<settingsVars, catalogVars, homeVars>>

---------------------------------------------------------------------------
(* Catalog translator: getChapters and getChapterDetails *)

\* books in the list of a series
MaxBooks == 2

\* pages in the page list of a book
MaxBookPages == 2

JsUndefined == [type |-> "undefined"]

\* an array of strings, and the value of a property that may be missing
JsStrings(list) == [i \in DOMAIN list |-> JsString(list[i])]
JsField(object, field) ==
    IF field \in DOMAIN object THEN JsString(object[field]) ELSE JsUndefined

ChapterIds == {"b1"}

\* the series the server may describe: `language` and `readingDirection`
\* may each be missing from its metadata
Languages == {"en", "xx"}
ReadingDirections == {"VERTICAL", "WEBTOON", "LEFT_TO_RIGHT", "RIGHT_TO_LEFT", "webtoon"}
SerieMetadatas ==
    {[language |-> l, readingDirection |-> d] : l \in Languages, d \in ReadingDirections}
    \cup {[language |-> l] : l \in Languages}
    \cup {[readingDirection |-> d] : d \in ReadingDirections}
    \cup {<<>>}
SerieResults == {[metadata |-> metadata] : metadata \in SerieMetadatas}

\* the lookup table imported from ./Languages
reverseLangCode == ("en" :> "gb") @@ ("fr" :> "fr") @@ ("_unknown" :> "_unknown")

\* the lookup without `?? reverseLangCode['_unknown']`
LanguageCodeWithoutFallback(metadata) ==
    IF "language" \in DOMAIN metadata /\ metadata.language \in DOMAIN reverseLangCode
    THEN reverseLangCode[metadata.language]
    ELSE "undefined"

\* `reverseLangCode[language] ?? reverseLangCode['_unknown']`
LanguageCode(metadata) ==
    IF "language" \in DOMAIN metadata /\ metadata.language \in DOMAIN reverseLangCode
    THEN reverseLangCode[metadata.language]
    ELSE reverseLangCode["_unknown"]

\* the books of a series as the server lists them (result.content)
Book(i) ==
    [id |-> "b" \o ToString(i),
     metadata |-> [number |-> "v" \o ToString(i), numberSort |-> i + 10,
                   title |-> "c" \o ToString(i)],
     size |-> ToString(i) \o " MiB",
     fileLastModified |-> i]
BookContent(n) == [i \in 1..n |-> Book(i)]
BookResults == {[content |-> BookContent(n)] : n \in 0..MaxBooks}

\* createChapter of lines 735-742
Chapter(mangaId, languageCode, book) ==
    [id |-> book.id,
     mangaId |-> mangaId,
     chapNum |-> book.metadata.numberSort,
     langCode |-> languageCode,
     name |-> book.metadata.number \o " - " \o book.metadata.title
              \o " (" \o book.size \o ")",
     time |-> book.fileLastModified]

\* lines 711-719
ChaptersStart(mangaId) ==
    /\ CatalogIdle
    /\ LET komgaAPI == getKomgaAPI(state)
       IN  IF komgaAPI.threw
           THEN CatalogUnset("getChapters", [mangaId |-> mangaId], komgaAPI.message)
           ELSE CatalogScheduled("getChapters", [mangaId |-> mangaId],
                    komgaAPI.value, 0,
                    [url |-> komgaAPI.value \o "/series/" \o mangaId \o "/books",
                     param |-> "?unpaged=true&media_status=READY",
                     method |-> "GET"])
    /\ UNCHANGED cPrev
    /\ UNCHANGED <<settingsVars, updatesVars, homeVars>>

\* lines 720-729: the book list arrives; the request for the series is built
\* and scheduled
ChaptersBooksResponse(result) ==
    /\ cPc = "inflight"
    /\ cOp = "getChapters"
    /\ "result" \notin DOMAIN cLocals
    /\ cLocals' = [result |-> result]
    /\ cRequest' = [url |-> cKomgaAPI \o "/series/" \o cArgs.mangaId \o "/",
                    method |-> "GET"]
    /\ cPc' = "scheduled"
    /\ UNCHANGED <<cOp, cArgs, cKomgaAPI, cPage, cResult, cError, cSent, cPrev>>
    /\ UNCHANGED <<settingsVars, updatesVars, homeVars>>

\* lines 730-746: the series arrives; one chapter is made of each book
ChaptersSerieResponse(resultSerie) ==
    /\ cPc = "inflight"
    /\ cOp = "getChapters"
    /\ "result" \in DOMAIN cLocals
    /\ LET languageCode == LanguageCode(resultSerie.metadata)
           content == cLocals.result.content
       IN  /\ cLocals' = [resultSerie |-> resultSerie] @@ cLocals
           /\ cResult' = [i \in 1..Len(content) |->
                             Chapter(cArgs.mangaId, languageCode, content[i])]
    /\ cPc' = "done"
    /\ UNCHANGED <<cOp, cArgs, cKomgaAPI, cPage, cRequest, cError, cSent, cPrev>>
    /\ UNCHANGED <<settingsVars, updatesVars, homeVars>>

SUPPORTED_IMAGE_TYPES ==
    <<"image/jpeg", "image/png", "image/gif", "image/webp", "application/pdf">>

\* the pages of a book as the server lists them: a number and a media type,
\* which may be missing
MediaTypes ==
    {SUPPORTED_IMAGE_TYPES[i] : i \in DOMAIN SUPPORTED_IMAGE_TYPES}
    \cup {"application/octet-stream", "IMAGE/PNG"}
BookPages ==
    {[number |-> n, mediaType |-> t] : n \in {1, 2}, t \in MediaTypes}
    \cup {[number |-> 1]}
PageLists == SeqsUpTo(BookPages, MaxBookPages)

\* every page is asked for as the server holds it
PageUrlNeverConverted(komgaAPI, chapterId, page) ==
    komgaAPI \o "/books/" \o chapterId \o "/pages/" \o ToString(page.number)

\* lines 764-768
PageUrl(komgaAPI, chapterId, page) ==
    IF includes(JsStrings(SUPPORTED_IMAGE_TYPES), JsField(page, "mediaType"))
    THEN komgaAPI \o "/books/" \o chapterId \o "/pages/" \o ToString(page.number)
    ELSE komgaAPI \o "/books/" \o chapterId \o "/pages/" \o ToString(page.number)
         \o "?convert=png"

\* the long strip for vertical reading only
LongStripVerticalOnly(serieResult) ==
    includes(JsStrings(<<"VERTICAL">>), JsField(serieResult.metadata, "readingDirection"))

\* lines 780-783
LongStrip(serieResult) ==
    includes(JsStrings(<<"VERTICAL", "WEBTOON">>),
             JsField(serieResult.metadata, "readingDirection"))

\* lines 751-758
ChapterDetailsStart(mangaId, chapterId) ==
    /\ CatalogIdle
    /\ LET komgaAPI == getKomgaAPI(state)
           args == [mangaId |-> mangaId, chapterId |-> chapterId]
       IN  IF komgaAPI.threw
           THEN CatalogUnset("getChapterDetails", args, komgaAPI.message)
           ELSE CatalogScheduled("getChapterDetails", args, komgaAPI.value, 0,
                    [url |-> komgaAPI.value \o "/books/" \o chapterId \o "/pages",
                     method |-> "GET"])
    /\ UNCHANGED cPrev
    /\ UNCHANGED <<settingsVars, updatesVars, homeVars>>

\* lines 759-777: the page list arrives; the page URLs are built, then the
\* request for the series is built and scheduled
ChapterPagesResponse(result) ==
    /\ cPc = "inflight"
    /\ cOp = "getChapterDetails"
    /\ "result" \notin DOMAIN cLocals
    /\ cLocals' = [result |-> result,
                   pages |-> [i \in 1..Len(result) |->
                                 PageUrl(cKomgaAPI, cArgs.chapterId, result[i])]]
    /\ cRequest' = [url |-> cKomgaAPI \o "/series/" \o cArgs.mangaId \o "/",
                    method |-> "GET"]
    /\ cPc' = "scheduled"
    /\ UNCHANGED <<cOp, cArgs, cKomgaAPI, cPage, cResult, cError, cSent, cPrev>>
    /\ UNCHANGED <<settingsVars, updatesVars, homeVars>>

\* lines 778-790: the series arrives and the chapter details are returned
ChapterSerieResponse(serieResult) ==
    /\ cPc = "inflight"
    /\ cOp = "getChapterDetails"
    /\ "result" \in DOMAIN cLocals
    /\ cLocals' = [serieResult |-> serieResult] @@ cLocals
    /\ cResult' = [id |-> cArgs.chapterId,
                   longStrip |-> LongStrip(serieResult),
                   mangaId |-> cArgs.mangaId,
                   pages |-> cLocals.pages]
    /\ cPc' = "done"
    /\ UNCHANGED <<cOp, cArgs, cKomgaAPI, cPage, cRequest, cError, cSent, cPrev>>
    /\ UNCHANGED <<settingsVars, updatesVars, homeVars>>

---------------------------------------------------------------------------
(* Catalog translator: getHomePageSections *)

\* the ids of the two sections, in the order of the `sections` array
HomeSectionIds == <<"new", "updated">>

HomeTitle(id) ==
    IF id = "new" THEN "Recently added series" ELSE "Recently updated series"

\* createHomeSection of lines 864-873: a section without items
HomeSection(id) == [id |-> id, title |-> HomeTitle(id), view_more |-> TRUE]

\* createHomeSection of lines 853-857
UnsetSection ==
    [id |-> "unset", title |-> "Server unset in source settings", view_more |-> FALSE]

\* the sizes of the lists the server may answer a section's fetch with
HomeFills == {0, 1, 2}

NoFetches == [id \in {"new", "updated"} |-> "none"]
NoRequests == [id \in {"new", "updated"} |-> <<>>]
NoSections == [id \in {"new", "updated"} |-> <<>>]

\* a promise of the previous call is still pending
HomePending == \E id \in DOMAIN hFetch : hFetch[id] \in {"scheduled", "inflight"}

\* the loop of lines 878-906 without its first statement: no section is
\* given to the callback before its fetch has resolved
HomeStartWithoutPlaceholders ==
    /\ hPc \in {"idle", "done", "failed"}
    /\ ~HomePending
    /\ "komgaAPI" \in DOMAIN state
    /\ hKomgaAPI' = <<state["komgaAPI"]>>
    /\ hError' = ""
    /\ hSent' = 0
    /\ hPc' = "awaiting"
    /\ hSections' = [id \in {"new", "updated"} |-> HomeSection(id)]
    /\ hEmitted' = <<>>
    /\ hFetch' = [id \in {"new", "updated"} |-> "scheduled"]
    /\ hRequests' = [id \in {"new", "updated"} |->
                        [url |-> state["komgaAPI"] \o "/series/" \o id,
                         param |-> "?page=0&size=20", method |-> "GET"]]
    /\ UNCHANGED <<settingsVars, catalogVars, updatesVars>>

\* the operation reading the API base as the other operations do, with
\* getKomgaAPI, which throws when none is stored
HomeStartThrowingWhenUnset ==
    /\ hPc \in {"idle", "done", "failed"}
    /\ ~HomePending
    /\ hSent' = 0
    /\ IF getKomgaAPI(state).threw
       THEN /\ hKomgaAPI' = <<>>
            /\ hError' = getKomgaAPI(state).message
            /\ hPc' = "failed"
            /\ hSections' = NoSections
            /\ hEmitted' = <<>>
            /\ hFetch' = NoFetches
            /\ hRequests' = NoRequests
       ELSE /\ hKomgaAPI' = <<state["komgaAPI"]>>
            /\ hError' = ""
            /\ hPc' = "awaiting"
            /\ hSections' = [id \in {"new", "updated"} |-> HomeSection(id)]
            /\ hEmitted' = [i \in 1..Len(HomeSectionIds) |->
                               HomeSection(HomeSectionIds[i])]
            /\ hFetch' = [id \in {"new", "updated"} |-> "scheduled"]
            /\ hRequests' = [id \in {"new", "updated"} |->
                                [url |-> state["komgaAPI"] \o "/series/" \o id,
                                 param |-> "?page=0&size=20", method |-> "GET"]]
    /\ UNCHANGED <<settingsVars, catalogVars, updatesVars>>

\* the `sections` array of lines 863-874 with its two sections exchanged
HomeStartUpdatedFirst ==
    /\ hPc \in {"idle", "done", "failed"}
    /\ ~HomePending
    /\ hError' = ""
    /\ hSent' = 0
    /\ IF "komgaAPI" \notin DOMAIN state
       THEN /\ hKomgaAPI' = <<>>
            /\ hPc' = "done"
            /\ hSections' = NoSections
            /\ hEmitted' = <<UnsetSection>>
            /\ hFetch' = NoFetches
            /\ hRequests' = NoRequests
       ELSE /\ hKomgaAPI' = <<state["komgaAPI"]>>
            /\ hPc' = "awaiting"
            /\ hSections' = [id \in {"new", "updated"} |-> HomeSection(id)]
            /\ hEmitted' = <<HomeSection("updated"), HomeSection("new")>>
            /\ hFetch' = [id \in {"new", "updated"} |-> "scheduled"]
            /\ hRequests' = [id \in {"new", "updated"} |->
                                [url |-> state["komgaAPI"] \o "/series/" \o id,
                                 param |-> "?page=0&size=20", method |-> "GET"]]
    /\ UNCHANGED <<settingsVars, catalogVars, updatesVars>>

\* lines 849-909, up to the await of Promise.all: the API base is retrieved;
\* without one the placeholder is emitted and the call returns; with one the
\* loop runs to its end without awaiting anything, so each section is emitted
\* empty and its request scheduled, 'new' first
HomeStart ==
    /\ hPc \in {"idle", "done", "failed"}
    /\ ~HomePending
    /\ hError' = ""
    /\ hSent' = 0
    /\ IF "komgaAPI" \notin DOMAIN state
       THEN /\ hKomgaAPI' = <<>>
            /\ hPc' = "done"
            /\ hSections' = NoSections
            /\ hEmitted' = <<UnsetSection>>
            /\ hFetch' = NoFetches
            /\ hRequests' = NoRequests
       ELSE /\ hKomgaAPI' = <<state["komgaAPI"]>>
            /\ hPc' = "awaiting"
            /\ hSections' = [id \in {"new", "updated"} |-> HomeSection(id)]
            /\ hEmitted' = [i \in 1..Len(HomeSectionIds) |->
                               HomeSection(HomeSectionIds[i])]
            /\ hFetch' = [id \in {"new", "updated"} |-> "scheduled"]
            /\ hRequests' = [id \in {"new", "updated"} |->
                                [url |-> state["komgaAPI"] \o "/series/" \o id,
                                 param |-> "?page=0&size=20", method |-> "GET"]]
    /\ UNCHANGED <<settingsVars, catalogVars, updatesVars>>

\* Promise.all(promises) rejects with the first rejection among its promises
HomeRejected(message) ==
    IF hPc = "awaiting"
    THEN hPc' = "failed" /\ hError' = message
    ELSE UNCHANGED <<hPc, hError>>

\* the request manager runs the interceptor on a section's request, then
\* dispatches it
HomeIntercept(id) ==
    /\ hFetch[id] = "scheduled"
    /\ LET intercepted == interceptRequest(hRequests[id], state)
       IN  IF intercepted.threw
           THEN /\ hFetch' = [hFetch EXCEPT ![id] = "rejected"]
                /\ HomeRejected(intercepted.message)
                /\ UNCHANGED <<hRequests, hSent>>
           ELSE /\ hFetch' = [hFetch EXCEPT ![id] = "inflight"]
                /\ hRequests' = [hRequests EXCEPT ![id] = intercepted.value]
                /\ hSent' = hSent + 1
                /\ UNCHANGED <<hPc, hError>>
    /\ UNCHANGED <<hKomgaAPI, hSections, hEmitted>>
    /\ UNCHANGED <<settingsVars, catalogVars, updatesVars>>

\* a then-callback that gives the section to the callback only while the
\* operation is still waiting
HomeResponseOnlyWhileAwaiting(id, content) ==
    /\ hFetch[id] = "inflight"
    /\ LET section == [items |-> Tiles(hKomgaAPI[1], content)] @@ hSections[id]
           fetch == [hFetch EXCEPT ![id] = "fulfilled"]
       IN  /\ hSections' = [hSections EXCEPT ![id] = section]
           /\ hEmitted' = IF hPc = "awaiting" THEN Append(hEmitted, section)
                          ELSE hEmitted
           /\ hFetch' = fetch
           /\ hPc' = IF hPc = "awaiting" /\ \A other \in DOMAIN fetch :
                                               fetch[other] = "fulfilled"
                     THEN "done" ELSE hPc
    /\ UNCHANGED <<hKomgaAPI, hRequests, hError, hSent>>
    /\ UNCHANGED <<settingsVars, catalogVars, updatesVars>>

\* a join that resolves with the first of its promises (Promise.race)
HomeResponseAnyResolves(id, content) ==
    /\ hFetch[id] = "inflight"
    /\ LET section == [items |-> Tiles(hKomgaAPI[1], content)] @@ hSections[id]
       IN  /\ hSections' = [hSections EXCEPT ![id] = section]
           /\ hEmitted' = Append(hEmitted, section)
           /\ hFetch' = [hFetch EXCEPT ![id] = "fulfilled"]
           /\ hPc' = IF hPc = "awaiting" THEN "done" ELSE hPc
    /\ UNCHANGED <<hKomgaAPI, hRequests, hError, hSent>>
    /\ UNCHANGED <<settingsVars, catalogVars, updatesVars>>

\* lines 890-904: a section's list arrives; its tiles are set on the section,
\* the section is emitted again, and Promise.all resolves if this was the
\* last of the two promises
HomeResponse(id, content) ==
    /\ hFetch[id] = "inflight"
    /\ LET section == [items |-> Tiles(hKomgaAPI[1], content)] @@ hSections[id]
           fetch == [hFetch EXCEPT ![id] = "fulfilled"]
       IN  /\ hSections' = [hSections EXCEPT ![id] = section]
           /\ hEmitted' = Append(hEmitted, section)
           /\ hFetch' = fetch
           /\ hPc' = IF hPc = "awaiting" /\ \A other \in DOMAIN fetch :
                                               fetch[other] = "fulfilled"
                     THEN "done" ELSE hPc
    /\ UNCHANGED <<hKomgaAPI, hRequests, hError, hSent>>
    /\ UNCHANGED <<settingsVars, catalogVars, updatesVars>>

\* the transport rejects a section's request: its promise rejects
HomeTransportFailure(id, message) ==
    /\ hFetch[id] = "inflight"
    /\ hFetch' = [hFetch EXCEPT ![id] = "rejected"]
    /\ HomeRejected(message)
    /\ UNCHANGED <<hKomgaAPI, hSections, hRequests, hEmitted, hSent>>
    /\ UNCHANGED <<settingsVars, catalogVars, updatesVars>>

---------------------------------------------------------------------------
(* The settings form and a catalog operation, running side by side *)

NoForm == [serverAddress |-> "", serverUsername |-> "", serverPassword |-> ""]

\* nothing has been called yet and the store holds `st`
InitWith(st) ==
    /\ state = st
    /\ storeQueue = <<>>
    /\ sPc = "idle"
    /\ sId = 0
    /\ sForm = NoForm
    /\ sAuthorization = ""
    /\ sKomgaAPI = ""
    /\ sRequest = <<>>
    /\ sStatus = NoStatus
    /\ sError = ""
    /\ sSent = 0
    /\ sBefore = st
    /\ cPc = "idle"
    /\ cOp = ""
    /\ cArgs = <<>>
    /\ cKomgaAPI = ""
    /\ cPage = 0
    /\ cRequest = <<>>
    /\ cLocals = <<>>
    /\ cResult = <<>>
    /\ cError = ""
    /\ cSent = 0
    /\ cPrev = <<>>
    /\ uPc = "idle"
    /\ uArgs = <<>>
    /\ uKomgaAPI = ""
    /\ uPage = 0
    /\ uFoundIds = <<>>
    /\ uLoadMore = TRUE
    /\ uRequest = <<>>
    /\ uError = ""
    /\ uSent = 0
    /\ uCallbacks = <<>>
    /\ uLast = <<>>
    /\ hPc = "idle"
    /\ hKomgaAPI = <<>>
    /\ hSections = NoSections
    /\ hFetch = NoFetches
    /\ hRequests = NoRequests
    /\ hEmitted = <<>>
    /\ hError = ""
    /\ hSent = 0

\* a fresh installation: nothing is stored
Init == InitWith(<<>>)

Next ==
    \/ \E form \in Forms : SubmitStart(form)
    \/ \E status \in Statuses : ProbeResponse(status)
    \/ \E message \in TransportErrors : ProbeTransportFailure(message)
    \/ SubmitJoin
    \/ \E i \in DOMAIN storeQueue : PerformStore(i)
    \/ \E mangaId \in MangaIds : DetailsStart(mangaId)
    \/ CatalogIntercept
    \/ \E status \in SeriesStatuses : DetailsResponse(status)
    \/ \E message \in TransportErrors : CatalogTransportFailure(message)

Spec == Init /\ [][Next]_vars

---------------------------------------------------------------------------
(* The catalog operations on a store that no submission is changing: the    *)
(* stores of SettledStates and of HalfStoredStates, all reachable under Spec *)

\* the store after a submission of `form` has completed without error
SettingsOf(form) ==
    [key \in RawKeys \cup DerivedKeys |->
        CASE key = "authorization" ->
                 createAuthorizationString(form["serverUsername"],
                                           form["serverPassword"])
          [] key = "komgaAPI" -> createKomgaAPI(form["serverAddress"])
          [] OTHER -> form[key]]

\* a fresh installation, and each configuration a completed submission leaves
SettledStates == {<<>>} \cup {SettingsOf(form) : form \in Forms}

\* the store in the middle of a first submission's join, when every store of
\* the call but the one of `authorization` has been performed
HalfStoredStates ==
    {[key \in (RawKeys \cup DerivedKeys) \ {"authorization"} |-> SettingsOf(form)[key]] :
        form \in Forms}

InitSettled == \E st \in SettledStates \cup HalfStoredStates : InitWith(st)

NextPaged ==
    \/ \E searchQuery \in SearchQueries, metadata \in Metadatas :
           SearchStart(searchQuery, metadata)
    \/ \E sectionId \in SectionIds, metadata \in Metadatas :
           ViewMoreStart(sectionId, metadata)
    \/ CatalogIntercept
    \/ \E n \in PageFills : PagedResponse(PageContent(n))
    \/ \E message \in TransportErrors : CatalogTransportFailure(message)

SpecPaged == InitSettled /\ [][NextPaged]_vars

NextUpdates ==
    \/ \E time \in UpdateTimes, ids \in UpdateIds : UpdatesStart(time, ids)
    \/ UpdatesIntercept
    \/ \E content \in UpdatedContents : UpdatesResponse(content)
    \/ \E message \in TransportErrors : UpdatesTransportFailure(message)

SpecUpdates == InitSettled /\ [][NextUpdates]_vars

NextHome ==
    \/ HomeStart
    \/ \E id \in {"new", "updated"} : HomeIntercept(id)
    \/ \E id \in {"new", "updated"}, n \in HomeFills : HomeResponse(id, PageContent(n))
    \/ \E id \in {"new", "updated"}, message \in TransportErrors :
           HomeTransportFailure(id, message)

SpecHome == InitSettled /\ [][NextHome]_vars

\* the server addresses a first submission may carry: with and without a
\* trailing slash, with a path, with two trailing slashes, and empty
Addresses ==
    {"", "/", "h", "h/", "h//", "http://h", "http://h/", "http://h:8080/komga",
     "http://h:8080/komga/"}
AddressForms ==
    {[serverAddress |-> address, serverUsername |-> "u", serverPassword |-> "p"] :
        address \in Addresses}

\* the first submission on a fresh installation
NextFirstSubmit ==
    \/ \E form \in AddressForms : sId = 0 /\ SubmitStart(form)
    \/ \E status \in Statuses : ProbeResponse(status)
    \/ \E message \in TransportErrors : ProbeTransportFailure(message)
    \/ SubmitJoin
    \/ \E i \in DOMAIN storeQueue : PerformStore(i)

SpecFirstSubmit == Init /\ [][NextFirstSubmit]_vars

\* the operations on one series and on one of its books
NextSeries ==
    \/ \E mangaId \in MangaIds : DetailsStart(mangaId)
    \/ \E status \in StatusStrings : DetailsResponse(status)
    \/ \E mangaId \in MangaIds : ChaptersStart(mangaId)
    \/ \E result \in BookResults : ChaptersBooksResponse(result)
    \/ \E resultSerie \in SerieResults : ChaptersSerieResponse(resultSerie)
    \/ \E mangaId \in MangaIds, chapterId \in ChapterIds :
           ChapterDetailsStart(mangaId, chapterId)
    \/ \E result \in PageLists : ChapterPagesResponse(result)
    \/ \E serieResult \in SerieResults : ChapterSerieResponse(serieResult)
    \/ CatalogIntercept
    \/ \E message \in TransportErrors : CatalogTransportFailure(message)

SpecSeries == InitSettled /\ [][NextSeries]_vars

\* every operation of the catalog translator, each answered by one short
\* response of the server or by a failure, the operations interleaving as the
\* host calls them
NextCatalog ==
    \/ \E mangaId \in MangaIds : DetailsStart(mangaId)
    \/ DetailsResponse("ENDED")
    \/ \E mangaId \in MangaIds : ChaptersStart(mangaId)
    \/ ChaptersBooksResponse([content |-> BookContent(1)])
    \/ ChaptersSerieResponse([metadata |-> <<>>])
    \/ \E mangaId \in MangaIds, chapterId \in ChapterIds :
           ChapterDetailsStart(mangaId, chapterId)
    \/ ChapterPagesResponse(<<>>)
    \/ ChapterSerieResponse([metadata |-> <<>>])
    \/ SearchStart(<<>>, <<>>)
    \/ ViewMoreStart("new", <<>>)
    \/ PagedResponse(PageContent(0))
    \/ CatalogIntercept
    \/ CatalogTransportFailure("NetworkError")
    \/ \E time \in UpdateTimes : UpdatesStart(time, <<>>)
    \/ UpdatesIntercept
    \/ \E content \in {<<>>, <<JsObject([id |-> "s1",
                                           metadata |-> [lastModified |-> 3]])>>} :
           UpdatesResponse(content)
    \/ UpdatesTransportFailure("NetworkError")
    \/ HomeStart
    \/ \E id \in {"new", "updated"} : HomeIntercept(id)
    \/ \E id \in {"new", "updated"} : HomeResponse(id, PageContent(0))
    \/ \E id \in {"new", "updated"} : HomeTransportFailure(id, "NetworkError")

SpecCatalog == InitSettled /\ [][NextCatalog]_vars

---------------------------------------------------------------------------
(* Properties of the settings form handler and of the interceptor *)

\* the value retrieved for `key` in two stores is the same (null included)
SameAt(st1, st2, key) ==
    /\ key \in DOMAIN st1 <=> key \in DOMAIN st2
    /\ key \in DOMAIN st1 => st1[key] = st2[key]

\* the store holds the five settings of `form`
HoldsSettingsOf(st, form) ==
    /\ DOMAIN st = RawKeys \cup DerivedKeys
    /\ \A key \in RawKeys : st[key] = form[key]
    /\ st["authorization"] = createAuthorizationString(form["serverUsername"],
                                                       form["serverPassword"])
    /\ st["komgaAPI"] = createKomgaAPI(form["serverAddress"])

\* C1: while a submission is probing and after it has failed, `authorization`
\* and `komgaAPI` hold what they held when it was called; a store of either
\* key is only ever issued by a submission whose probe returned 200.
C1_DerivedKeysWrittenOnlyAfter200 ==
    /\ sPc \in {"probing", "failed"} =>
           \A key \in DerivedKeys : SameAt(state, sBefore, key)
    /\ \A i \in DOMAIN storeQueue :
           storeQueue[i].key \in DerivedKeys =>
               /\ sPc = "joining"
               /\ sStatus = 200
               /\ storeQueue[i].sid = sId

\* a submission with new credentials and a new address was answered 401, on
\* top of a configuration that an earlier submission had stored
C1_Witness ==
    /\ sPc = "failed"
    /\ sStatus = 401
    /\ DerivedKeys \subseteq DOMAIN sBefore
    /\ sAuthorization # sBefore["authorization"]
    /\ sKomgaAPI # sBefore["komgaAPI"]
    /\ storeQueue = <<>>

\* C2: after a submission whose probe failed, the persistent state is what it
\* was when the submission was called (nothing was written).
C2_NothingWrittenOnFailure ==
    sPc = "failed" => state = sBefore

\* C3: a submission has completed without error only when the five keys hold
\* the submitted fields and the values derived from them.
C3_SuccessPersistsAllFive ==
    sPc = "done" =>
        /\ sError = ""
        /\ sStatus = 200
        /\ HoldsSettingsOf(state, sForm)

\* a successful submission that replaced an earlier, different configuration
C3_Witness ==
    /\ sPc = "done"
    /\ DerivedKeys \subseteq DOMAIN sBefore
    /\ sBefore["authorization"] # sAuthorization
    /\ sBefore["komgaAPI"] # sKomgaAPI

\* C4: status 200 is success, 401 the unauthorized error, any other status the
\* connection-failure error with that status, a transport failure the
\* could-not-connect error with the transport's message; every submission
\* hands exactly one request to the network.
C4_ProbeOutcome ==
    /\ sPc \in {"joining", "done"} => sStatus = 200 /\ sError = ""
    /\ sPc = "failed" =>
           /\ sStatus # 200
           /\ sStatus = 401 => sError = "401 Unauthorized: Invalid credentials"
           /\ sStatus \notin {NoStatus, 401} =>
                  sError = "Connection failed with status code " \o ToString(sStatus)
           /\ sStatus = NoStatus =>
                  \E message \in TransportErrors :
                      sError = "Could not connect to server: " \o message
    /\ sPc = "probing" => sStatus = NoStatus /\ sError = ""
    /\ sPc # "idle" => sSent = 1

\* a submission answered with a status that is neither 200 nor 401
C4_Witness ==
    /\ sPc = "failed"
    /\ sStatus = 500
    /\ sError = "Connection failed with status code 500"

\* C5: when the interceptor handles a request without authorization header,
\* either an authorization is stored, and the request is dispatched with it
\* as its header, or none is stored, and the operation fails with "Unset
\* credentials in source settings" and nothing is dispatched.
C5_InterceptorInjectsStored ==
    [][ (cPc = "scheduled" /\ cPc' # "scheduled") =>
            IF "authorization" \in DOMAIN state
            THEN /\ cPc' = "inflight"
                 /\ cRequest'.headers = [authorization |-> state["authorization"]]
                 /\ cRequest'.url = cRequest.url
                 /\ cSent' = cSent + 1
            ELSE /\ cPc' = "failed"
                 /\ cError' = "Unset credentials in source settings"
                 /\ cSent' = cSent ]_vars

\* a catalog request in flight with the authorization of the second of two
\* configurations
C5_Witness ==
    /\ cPc = "inflight"
    /\ sId = 2
    /\ sPc = "done"
    /\ cRequest.headers = [authorization |-> sAuthorization]
    /\ DerivedKeys \subseteq DOMAIN sBefore
    /\ sBefore["authorization"] # sAuthorization

\* C6: the probe carries its own authorization header, so it is dispatched
\* with the credentials derived from the form, whatever is stored, and the
\* submission never fails for unset credentials.
C6_ProbeBypassesLookup ==
    /\ sPc = "probing" =>
           /\ sRequest.headers = [authorization |->
                  createAuthorizationString(sForm["serverUsername"],
                                            sForm["serverPassword"])]
           /\ sRequest.url = createKomgaAPI(sForm["serverAddress"]) \o "/series/"
           /\ sSent = 1
    /\ sPc = "failed" =>
           sError # "Could not connect to server: Unset credentials in source settings"

\* the probe is in flight while nothing has ever been stored
C6_Witness ==
    /\ sPc = "probing"
    /\ state = <<>>
    /\ storeQueue = EarlyStores(sForm, sId)
    /\ sId = 1
    /\ "authorization" \in DOMAIN sRequest.headers

---------------------------------------------------------------------------
(* Properties of the paged operations *)

\* the request of a paged call asks for page `page` with size 40
AsksForPage(request, page) ==
    LET prefix == "?page=" \o ToString(page) \o "&size=40"
    IN  /\ Len(request.param) >= Len(prefix)
        /\ SubSeq(request.param, 1, Len(prefix)) = prefix
        /\ Len(request.param) > Len(prefix) =>
               CharAt(request.param, Len(prefix) + 1) = "&"

\* C7: searchRequest and getViewMoreItems ask for the page of their cursor (0
\* without a cursor) with size 40, and return no cursor after an empty page
\* and the cursor page + 1 after any other page.
C7_PagedCursor ==
    cOp \in PagedOps =>
        /\ cPc \in {"scheduled", "inflight", "done"} =>
               /\ cPage = PageOf(cArgs.metadata)
               /\ AsksForPage(cRequest, cPage)
        /\ cPc = "done" =>
               /\ Len(cResult.results) = 0 => "metadata" \notin DOMAIN cResult
               /\ Len(cResult.results) > 0 =>
                      /\ "metadata" \in DOMAIN cResult
                      /\ cResult.metadata = [page |-> cPage + 1]

\* page 0 returned 40 items and the cursor 1; the call with that cursor got an
\* empty page 1 and returned no cursor
C7_Witness ==
    /\ cPc = "done"
    /\ cOp = "searchRequest"
    /\ cPrev # <<>>
    /\ cPrev.op = "searchRequest"
    /\ cPrev.args.metadata = <<>>
    /\ cPrev.page = 0
    /\ cPrev.size = 40
    /\ cPrev.result = [metadata |-> [page |-> 1]]
    /\ cArgs.metadata = cPrev.result.metadata
    /\ cPage = 1
    /\ cRequest.param = "?page=1&size=40&search=a%20b"
    /\ cResult = [results |-> <<>>]

---------------------------------------------------------------------------
(* Properties of filterUpdatedManga *)

\* a page that holds a series last modified before `time`
HasOlder(content, time) ==
    \E i \in DOMAIN content : content[i].metadata.lastModified < time

\* a page is the last one when it is empty or holds an older series
StopsAt(content, time) == Len(content) = 0 \/ HasOlder(content, time)

\* C10: after a page that is empty or holds a series older than the cutoff,
\* filterUpdatedManga has returned with no further request; after any other
\* page it has asked for the next page.
C10_StopsAtOlderOrEmpty ==
    (uPc # "failed" /\ uPage > 0) =>
        IF StopsAt(uLast, uArgs.time)
        THEN /\ uPc = "done"
             /\ uRequest = <<>>
             /\ uSent = uPage
        ELSE /\ uPc \in {"scheduled", "inflight"}
             /\ uRequest.param = "?page=" \o ToString(uPage) \o "&size=40"
             /\ uSent = IF uPc = "inflight" THEN uPage + 1 ELSE uPage

\* the second page held a series at the cutoff followed by an older one, and
\* the poll returned after two requests
C10_Witness ==
    /\ uPc = "done"
    /\ uPage = 2
    /\ uSent = 2
    /\ Len(uLast) = 2
    /\ uLast[1].metadata.lastModified = uArgs.time
    /\ uLast[2].metadata.lastModified < uArgs.time

---------------------------------------------------------------------------
(* Properties of getHomePageSections *)

\* the emissions of section `id` without items, and with items
EmptyEmissions(id) ==
    {i \in DOMAIN hEmitted : hEmitted[i].id = id /\ "items" \notin DOMAIN hEmitted[i]}
PopulatedEmissions(id) ==
    {i \in DOMAIN hEmitted : hEmitted[i].id = id /\ "items" \in DOMAIN hEmitted[i]}

\* C8: with a configured server, each of the sections 'new' and 'updated' is
\* emitted empty exactly once, is emitted populated exactly when its fetch has
\* resolved, and its empty emission comes before its populated one.
C8_PlaceholderThenPopulated ==
    (hPc # "idle" /\ "komgaAPI" \in DOMAIN state) =>
        \A id \in {"new", "updated"} :
            /\ Cardinality(EmptyEmissions(id)) = 1
            /\ Cardinality(PopulatedEmissions(id)) =
                   IF hFetch[id] = "fulfilled" THEN 1 ELSE 0
            /\ \A i \in EmptyEmissions(id), j \in PopulatedEmissions(id) : i < j
            /\ hFetch[id] = "fulfilled" => hSections[id] \in
                   {[items |-> Tiles(hKomgaAPI[1], PageContent(n))] @@ HomeSection(id) :
                        n \in HomeFills}

\* both sections are populated, 'updated' before 'new': the populated
\* emissions come in the order of the responses, not of the sections
C8_Witness ==
    /\ hPc = "done"
    /\ Len(hEmitted) = 4
    /\ hEmitted[3].id = "updated"
    /\ Len(hEmitted[3].items) = 2
    /\ hEmitted[4].id = "new"
    /\ hEmitted[4].items = <<>>

\* C9: without a stored komgaAPI, getHomePageSections gives the callback the
\* single section 'unset', hands no request to the network and returns
\* without error.
C9_UnsetPlaceholder ==
    (hPc # "idle" /\ "komgaAPI" \notin DOMAIN state) =>
        /\ hPc = "done"
        /\ hError = ""
        /\ Len(hEmitted) = 1
        /\ hEmitted[1].id = "unset"
        /\ hSent = 0
        /\ hFetch = NoFetches
        /\ hRequests = NoRequests

\* the call has returned on a store that holds nothing
C9_Witness ==
    /\ hPc = "done"
    /\ state = <<>>
    /\ hEmitted = <<UnsetSection>>

---------------------------------------------------------------------------
(* Properties of filterUpdatedManga: what is given to the callback *)

\* the series at position i of a page is reached by the scan (no series
\* before it is older than `time`), is not older than `time` itself, and its
\* id is one of the candidate ids
IsMatch(content, i, time, ids) ==
    /\ \A j \in 1..i : content[j].metadata.lastModified >= time
    /\ \E k \in DOMAIN ids : ids[k].type = "string" /\ ids[k].value = content[i].id

\* the batch holds the id, as a string or as the series that carries it
Delivers(batch, id) ==
    \E k \in DOMAIN batch.ids :
        \/ batch.ids[k].type = "string" /\ batch.ids[k].value = id
        \/ batch.ids[k].type = "object" /\ batch.ids[k].id = id

\* C11: once filterUpdatedManga has processed a page, the id of every series
\* of that page that the scan reached, that is not older than the cutoff and
\* whose id is among the candidate ids has been given to the callback.
C11_MatchDelivered ==
    (uPc # "failed" /\ uPage > 0) =>
        \A i \in DOMAIN uLast :
            IsMatch(uLast, i, uArgs.time, uArgs.ids) =>
                \E b \in DOMAIN uCallbacks : Delivers(uCallbacks[b], uLast[i].id)

\* C12: each time filterUpdatedManga processes a page, it calls the callback
\* once if a match has been collected on this page or on an earlier one (an
\* earlier batch shows it) and not at all otherwise, and the batch it gives
\* holds every id of the batch before it.
C12_CumulativeBatches ==
    [][uPage' = uPage + 1 =>
         LET matched == \/ Len(uCallbacks) > 0
                        \/ \E i \in DOMAIN uLast' :
                               IsMatch(uLast', i, uArgs.time, uArgs.ids)
         IN  IF matched
             THEN /\ Len(uCallbacks') = Len(uCallbacks) + 1
                  /\ Len(uCallbacks) > 0 =>
                         \A k \in DOMAIN uCallbacks[Len(uCallbacks)].ids :
                             \E l \in DOMAIN uCallbacks'[Len(uCallbacks')].ids :
                                 uCallbacks'[Len(uCallbacks')].ids[l]
                                     = uCallbacks[Len(uCallbacks)].ids[k]
             ELSE uCallbacks' = uCallbacks]_vars

---------------------------------------------------------------------------
(* Properties of the catalog operations: configuration and failures *)

RequestsBuilt ==
    IF cPc = "idle" THEN 0
    ELSE IF cOp \in {"getChapters", "getChapterDetails"} /\ "result" \in DOMAIN cLocals
         THEN 2
         ELSE 1

\* C20: a request is handed to the network at most once, and when a request
\* of an operation fails (at the interceptor or at the transport: the request
\* ends without a response) the operation fails with that error and returns
\* nothing; a failed call stays failed until the host calls again.
C20_FailuresPropagate ==
    [][/\ cSent' <= RequestsBuilt'
       /\ uSent' <= uPage' + 1
       /\ hSent' <= Len(HomeSectionIds)
       /\ (cPc \in {"scheduled", "inflight"} /\ cPc' \notin {"scheduled", "inflight"}
              /\ cLocals' = cLocals) =>
              (cPc' = "failed" /\ cError' # "" /\ cResult' = <<>> /\ cSent' = cSent)
       /\ (cPc = "inflight" /\ cPc' = "scheduled") => cLocals' # cLocals
       /\ (cPc = "failed" /\ cPc' # "failed") => (cSent' = 0 /\ cLocals' = <<>>)
       /\ (uPc \in {"scheduled", "inflight"} /\ uPc' \notin {"scheduled", "inflight"}
              /\ uPage' = uPage) =>
              (uPc' = "failed" /\ uError' # "" /\ uSent' = uSent)
       /\ (uPc = "inflight" /\ uPc' = "scheduled") => uPage' = uPage + 1
       /\ (uPc = "failed" /\ uPc' # "failed") => uSent' = 0
       /\ \A id \in DOMAIN hFetch :
              (hFetch[id] \in {"scheduled", "inflight"}
                  /\ hFetch'[id] \notin {"scheduled", "inflight", "fulfilled"}) =>
                  (hFetch'[id] = "rejected" /\ hPc' = "failed" /\ hError' # "")
       /\ (hPc = "failed" /\ hPc' # "failed") => hSent' = 0
      ]_vars

\* the second request of getChapters, the second request of
\* filterUpdatedManga and a request of getHomePageSections have failed, and
\* the three operations have failed
C20_Witness ==
    /\ cOp = "getChapters"
    /\ cPc = "failed"
    /\ cSent = 2
    /\ cError = "NetworkError"
    /\ cResult = <<>>
    /\ uPc = "failed"
    /\ uSent = 2
    /\ uError = "NetworkError"
    /\ hPc = "failed"
    /\ hError = "NetworkError"

---------------------------------------------------------------------------
(* Properties of parseMangaStatus, getChapterDetails and createKomgaAPI *)

\* C14: the status of the details getMangaDetails returns is completed when
\* the server's status string is "ENDED", and ongoing for "ONGOING",
\* "ABANDONED", "HIATUS" and any other string.
C14_StatusMapping ==
    (cOp = "getMangaDetails" /\ cPc = "done") =>
        cResult.status = IF cLocals.result.metadata.status = "ENDED"
                         THEN "COMPLETED" ELSE "ONGOING"

\* an abandoned series is reported as ongoing
C14_Witness ==
    /\ cOp = "getMangaDetails"
    /\ cPc = "done"
    /\ cLocals.result.metadata.status = "ABANDONED"
    /\ cResult.status = "ONGOING"

\* C15: getChapterDetails returns one URL for each page of the server's page
\* list, in the order of the list: {api}/books/{chapterId}/pages/{number},
\* as it is when the page's media type is image/jpeg, image/png, image/gif,
\* image/webp or application/pdf, and with ?convert=png appended otherwise.
C15_PageUrls ==
    (cOp = "getChapterDetails" /\ cPc = "done") =>
        LET list == cLocals.result
            direct(page) == /\ "mediaType" \in DOMAIN page
                            /\ page.mediaType \in {"image/jpeg", "image/png", "image/gif",
                                                   "image/webp", "application/pdf"}
        IN  /\ Len(cResult.pages) = Len(list)
            /\ \A i \in DOMAIN list :
                   cResult.pages[i] =
                       state["komgaAPI"] \o "/books/" \o cArgs.chapterId \o "/pages/"
                       \o ToString(list[i].number)
                       \o (IF direct(list[i]) THEN "" ELSE "?convert=png")

\* a book whose page 2, a WebP image, is listed before its page 1, of a type
\* that is not supported
C15_Witness ==
    /\ cOp = "getChapterDetails"
    /\ cPc = "done"
    /\ cLocals.result = <<[number |-> 2, mediaType |-> "image/webp"],
                          [number |-> 1, mediaType |-> "application/octet-stream"]>>
    /\ cResult.pages = <<cKomgaAPI \o "/books/b1/pages/2",
                         cKomgaAPI \o "/books/b1/pages/1?convert=png">>

\* C16: the chapter details are a long strip exactly when the reading
\* direction of the series is "VERTICAL" or "WEBTOON"; with any other
\* direction or none they are not.
C16_LongStrip ==
    (cOp = "getChapterDetails" /\ cPc = "done") =>
        LET metadata == cLocals.serieResult.metadata
        IN  cResult.longStrip <=>
                /\ "readingDirection" \in DOMAIN metadata
                /\ metadata.readingDirection \in {"VERTICAL", "WEBTOON"}

\* a webtoon is a long strip
C16_Witness ==
    /\ cOp = "getChapterDetails"
    /\ cPc = "done"
    /\ "readingDirection" \in DOMAIN cLocals.serieResult.metadata
    /\ cLocals.serieResult.metadata.readingDirection = "WEBTOON"
    /\ cResult.longStrip

\* the last `n` characters of a string (the whole string when it is shorter)
Suffix(str, n) == IF Len(str) < n THEN str ELSE SubSeq(str, Len(str) - n + 1, Len(str))

\* C17: the API base made of a server address is the address followed by
\* "api/v1" when the address ends with "/" and by "/api/v1" when it does not:
\* it ends with "/api/v1", and the join never puts a slash after a slash.
C17_ApiBase ==
    sPc # "idle" =>
        LET address == sForm.serverAddress
            slashed == Len(address) > 0 /\ Suffix(address, 1) = "/"
            joined == SubSeq(sKomgaAPI, Len(address) + 1, Len(sKomgaAPI))
        IN  /\ SubSeq(sKomgaAPI, 1, Len(address)) = address
            /\ joined = IF slashed THEN "api/v1" ELSE "/api/v1"
            /\ Suffix(sKomgaAPI, 7) = "/api/v1"
            /\ (Len(address) > 1 /\ Suffix(address, 2) = "//")
                   \/ Suffix(sKomgaAPI, 8) # "//api/v1"

\* an address with a path and a trailing slash, submitted and stored
C17_Witness ==
    /\ sPc = "done"
    /\ sForm.serverAddress = "http://h:8080/komga/"
    /\ sKomgaAPI = "http://h:8080/komga/api/v1"
    /\ "komgaAPI" \in DOMAIN state
    /\ state["komgaAPI"] = sKomgaAPI

---------------------------------------------------------------------------
(* Properties of getHomePageSections and filterUpdatedManga: their requests *)

\* C18: with a configured server, getHomePageSections has scheduled the
\* requests of both sections before any response is processed, hands at most
\* two requests to the network, and has returned exactly when both fetches
\* have resolved: then two requests were sent and the callback was called
\* four times, the last time for each section with its items.
C18_BothFetchesJoined ==
    (hPc # "idle" /\ hKomgaAPI # <<>>) =>
        /\ \A id \in {"new", "updated"} : hFetch[id] # "none" /\ hRequests[id] # <<>>
        /\ hSent <= 2
        /\ hPc = "done" <=> \A id \in {"new", "updated"} : hFetch[id] = "fulfilled"
        /\ hPc = "done" =>
               /\ hSent = 2
               /\ Len(hEmitted) = 4
               /\ \A id \in {"new", "updated"} : Cardinality(PopulatedEmissions(id)) = 1

\* both requests were sent with the stored authorization and the call
\* returned after the populated emission of 'new' and then of 'updated'
C18_Witness ==
    /\ hPc = "done"
    /\ hSent = 2
    /\ Len(hEmitted) = 4
    /\ hEmitted[3].id = "new"
    /\ hEmitted[4].id = "updated"
    /\ "authorization" \in DOMAIN hRequests["updated"].headers

\* C19: filterUpdatedManga asks for the pages 0, 1, 2, ... in this order,
\* the next one only when the previous one has been processed; after a page
\* that is empty or holds a series older than the cutoff it returns, and after
\* any other page, whatever its index, it asks for the next one.
C19_PagesInOrderWithoutBound ==
    [][/\ uPage' \in {0, uPage, uPage + 1}
       /\ uPc' \in {"scheduled", "inflight"} =>
              /\ uRequest'.url = state["komgaAPI"] \o "/series/updated/"
              /\ uRequest'.param = "?page=" \o ToString(uPage') \o "&size=40"
       /\ uSent' <= uPage' + 1
       /\ uPc' = "inflight" => uSent' = uPage' + 1
       /\ uSent' \in {0, uSent, uSent + 1}
       /\ uPage' = uPage + 1 =>
              IF StopsAt(uLast', uArgs.time)
              THEN uPc' = "done"
              ELSE uPc' = "scheduled"
       /\ (uPc # "done" /\ uPc' = "done") =>
              (uPage' = uPage + 1 /\ StopsAt(uLast', uArgs.time))
      ]_vars

\* as many pages as the server answers have been processed, none of them
\* empty or holding an older series, and the next page has been asked for
C19_Witness ==
    /\ uPage = MaxPages
    /\ uSent = MaxPages + 1
    /\ uPc = "inflight"
    /\ uRequest.param = "?page=" \o ToString(MaxPages) \o "&size=40"
    /\ ~StopsAt(uLast, uArgs.time)

---------------------------------------------------------------------------
(* Properties of the catalog operations: the persistent state *)

\* C21: no step of getMangaDetails, getChapters, getChapterDetails,
\* searchRequest, getViewMoreItems, getHomePageSections, filterUpdatedManga
\* or of the request interceptor writes to the persistent state or issues a
\* store call: whatever these operations do, the store stays as the settings
\* form left it.
C21_CatalogNeverWrites ==
    [][/\ state' = state
       /\ storeQueue' = storeQueue
       /\ state' = sBefore'
       /\ sId' = 0
      ]_vars

\* a paged operation, an update poll and the home page have all returned on
\* a configured store, which still holds the five settings it started with
C21_Witness ==
    /\ cPc = "done"
    /\ cOp \in PagedOps
    /\ cSent = 1
    /\ uPc = "done"
    /\ uSent > 0
    /\ hPc = "done"
    /\ hSent = 2
    /\ DOMAIN state = RawKeys \cup DerivedKeys
    /\ state = sBefore
    /\ storeQueue = <<>>

---------------------------------------------------------------------------
(* Properties of getChapters *)

\* C22: getChapters hands two requests to the network, one after the other:
\* the one for the book list, then, once the book list has arrived, the one
\* for the series; it returns one chapter for each book of the list, in the
\* order of the list, numbered by the book's numberSort and carrying the
\* language code the table gives for the language of the series, or its
\* '_unknown' entry when the table has none.
C22_ChaptersOfBooks ==
    (cOp = "getChapters" /\ cPc \in {"scheduled", "inflight", "done"}) =>
        LET api == state["komgaAPI"]
            first == "result" \notin DOMAIN cLocals
        IN  /\ first =>
                   /\ cRequest.url = api \o "/series/" \o cArgs.mangaId \o "/books"
                   /\ cRequest.param = "?unpaged=true&media_status=READY"
                   /\ cRequest.method = "GET"
                   /\ cSent = IF cPc = "inflight" THEN 1 ELSE 0
                   /\ cPc # "done"
            /\ ~first =>
                   /\ cRequest.url = api \o "/series/" \o cArgs.mangaId \o "/"
                   /\ cRequest.method = "GET"
                   /\ cSent = IF cPc = "scheduled" THEN 1 ELSE 2
            /\ cPc = "done" =>
                   LET content == cLocals.result.content
                       metadata == cLocals.resultSerie.metadata
                       mapped == /\ "language" \in DOMAIN metadata
                                 /\ metadata.language \in DOMAIN reverseLangCode
                   IN  /\ Len(cResult) = Len(content)
                       /\ \A i \in DOMAIN content :
                              /\ cResult[i].id = content[i].id
                              /\ cResult[i].mangaId = cArgs.mangaId
                              /\ cResult[i].chapNum = content[i].metadata.numberSort
                              /\ cResult[i].langCode =
                                     IF mapped THEN reverseLangCode[metadata.language]
                                     ELSE reverseLangCode["_unknown"]

\* two books of a series whose language the table does not hold
C22_Witness ==
    /\ cOp = "getChapters"
    /\ cPc = "done"
    /\ cSent = 2
    /\ Len(cResult) = 2
    /\ cResult[1].id = "b1"
    /\ cResult[2].id = "b2"
    /\ "language" \in DOMAIN cLocals.resultSerie.metadata
    /\ cLocals.resultSerie.metadata.language = "xx"
    /\ cResult[2].chapNum = cLocals.result.content[2].metadata.numberSort
    /\ cResult[2].langCode = "_unknown"

---------------------------------------------------------------------------
(* Properties of the stored settings across submissions *)

\* no submission is running and every store call issued has been performed
SettingsAtRest == sPc \in {"idle", "done", "failed"} /\ storeQueue = <<>>

\* C23: when no submission is running and all writes have completed, a
\* stored komgaAPI is createKomgaAPI of the stored serverAddress and a stored
\* authorization is createAuthorizationString of the stored serverUsername
\* and serverPassword, whatever submissions succeeded or failed before.
C23_DerivedMatchRaw ==
    SettingsAtRest =>
        /\ "komgaAPI" \in DOMAIN state =>
               /\ "serverAddress" \in DOMAIN state
               /\ state["komgaAPI"] = createKomgaAPI(state["serverAddress"])
        /\ "authorization" \in DOMAIN state =>
               /\ {"serverUsername", "serverPassword"} \subseteq DOMAIN state
               /\ state["authorization"] =
                      createAuthorizationString(state["serverUsername"],
                                                state["serverPassword"])

\* the API base and the authorization that one form gives
PairOf(form) ==
    [komgaAPI |-> createKomgaAPI(form["serverAddress"]),
     authorization |-> createAuthorizationString(form["serverUsername"],
                                                form["serverPassword"])]

\* C24: a request of a catalog operation that has been handed to the network
\* goes to the API base of one submitted form and carries the authorization
\* of the same form, also when a submission completes between the operation's
\* read of komgaAPI and the interceptor's read of authorization.
C24_RequestPairsOneConfiguration ==
    cPc = "inflight" =>
        \E form \in Forms :
            /\ cKomgaAPI = PairOf(form).komgaAPI
            /\ cRequest.headers.authorization = PairOf(form).authorization

---------------------------------------------------------------------------
(* Properties of getHomePageSections: the order of the emissions, failures *)

\* C25: with a configured server, the first two sections given to the
\* callback are 'new' and then 'updated', both without items, and every
\* section given after them carries items: no populated emission comes
\* before the two placeholders, in whatever order the responses arrive.
C25_PlaceholdersFirst ==
    (hPc # "idle" /\ hKomgaAPI # <<>>) =>
        /\ Len(hEmitted) >= 2
        /\ hEmitted[1] = [id |-> "new", title |-> "Recently added series",
                          view_more |-> TRUE]
        /\ hEmitted[2] = [id |-> "updated", title |-> "Recently updated series",
                          view_more |-> TRUE]
        /\ \A i \in 3..Len(hEmitted) : "items" \in DOMAIN hEmitted[i]

\* the response of 'updated' has been processed and the one of 'new' has
\* not arrived yet
C25_Witness ==
    /\ hPc = "awaiting"
    /\ hFetch["new"] = "inflight"
    /\ hFetch["updated"] = "fulfilled"
    /\ Len(hEmitted) = 3
    /\ hEmitted[3].id = "updated"
    /\ Len(hEmitted[3].items) = 1

\* C26: when the fetch of one section has failed, getHomePageSections has
\* failed and that section has not been emitted with items; the fetch of the
\* other section goes on, and when it resolves, also after the operation has
\* failed, its section is given to the callback with its items.
C26_OtherSectionStillEmitted ==
    [][\A id \in {"new", "updated"} :
           /\ hFetch'[id] = "rejected" =>
                  /\ hPc' = "failed"
                  /\ PopulatedEmissions(id)' = {}
           /\ (hFetch[id] = "inflight" /\ hFetch'[id] = "fulfilled") =>
                  /\ Len(hEmitted') = Len(hEmitted) + 1
                  /\ hEmitted'[Len(hEmitted')].id = id
                  /\ "items" \in DOMAIN hEmitted'[Len(hEmitted')]
                  /\ hPc = "failed" => hPc' = "failed"
           /\ hFetch'[id] = "fulfilled" => Cardinality(PopulatedEmissions(id)') = 1
      ]_vars

\* the fetch of 'new' has failed, the operation has failed, and 'updated'
\* has been emitted with its items
C26_Witness ==
    /\ hPc = "failed"
    /\ hFetch["new"] = "rejected"
    /\ hFetch["updated"] = "fulfilled"
    /\ Len(hEmitted) = 3
    /\ hEmitted[3].id = "updated"
    /\ "items" \in DOMAIN hEmitted[3]
    /\ hError \in TransportErrors

---------------------------------------------------------------------------
(* Properties of filterUpdatedManga: where the scan ends *)

\* the positions of a page that come before its first series older than `time`
ScannedPrefix(content, time) ==
    {i \in DOMAIN content : \A j \in 1..i : content[j].metadata.lastModified >= time}

\* C27: when filterUpdatedManga processes a page, what it collects comes
\* from the positions before the first series older than the cutoff, never
\* from those after it; and with such a series in the page the poll returns
\* without asking for another page, so it collects nothing afterwards.
C27_ScanEndsAtFirstOlder ==
    [][/\ uPage' = uPage + 1 =>
              LET fresh == SubSeq(uFoundIds', Len(uFoundIds) + 1, Len(uFoundIds'))
                  prefix == ScannedPrefix(uLast', uArgs.time)
              IN  /\ Len(uFoundIds') >= Len(uFoundIds)
                  /\ SubSeq(uFoundIds', 1, Len(uFoundIds)) = uFoundIds
                  /\ Len(fresh) <= Cardinality(prefix)
                  /\ \A k \in DOMAIN fresh : \E i \in prefix : fresh[k] = uLast'[i]
                  /\ HasOlder(uLast', uArgs.time) =>
                         /\ uPc' = "done"
                         /\ uRequest' = <<>>
                         /\ uSent' = uSent
       /\ (uPc = "done" /\ uPc' = "done") =>
              (uFoundIds' = uFoundIds /\ uCallbacks' = uCallbacks /\ uSent' = uSent)
      ]_vars

\* a page whose first series is older than the cutoff and whose second is a
\* candidate modified after the cutoff: the poll has returned after this one
\* page with nothing collected
C27_Witness ==
    /\ uPc = "done"
    /\ uPage = 1
    /\ uSent = 1
    /\ Len(uLast) = 2
    /\ uLast[1].metadata.lastModified < uArgs.time
    /\ uLast[2].metadata.lastModified > uArgs.time
    /\ \E k \in DOMAIN uArgs.ids : uArgs.ids[k].value = uLast[2].id
    /\ uFoundIds = <<>>
    /\ uCallbacks = <<>>

====
